---- MODULE Spec2Model ----
(***************************************************************************)
(* Model of photo_organiser.py: date inference from paths, the organise    *)
(* pass (deduplication, placement, manifest, statistics) and the face      *)
(* clustering / labelling pipeline.                                        *)
(*                                                                         *)
(* Strings are sequences of one-character strings so that the regular      *)
(* expressions of the source can be evaluated character by character.      *)
(* A datetime is <<year, month, day>>; None is the empty sequence.         *)
(***************************************************************************)
EXTENDS Integers, Sequences, FiniteSets, TLC

VARIABLES
    os_sep,        \* os.sep of the platform: "/" or "\\"
    path,          \* argument of infer_date_from_path
    date_result,   \* its return value
    date_pc,       \* "build" | "ready" | "done"
    images,        \* get_all_images(input_folder): the enumerated image files
    out_files,     \* files under output_folder: destination path -> content
    org_pc,        \* "setup" | "loop" | "done"
    run,           \* which call of organise_photos this is (1 or 2)
    idx,           \* number of images the for loop has processed
    seen_hashes,   \* organise_photos: seen_hashes
    stats,         \* organise_photos: stats
    photo_manifest,\* organise_photos: photo_manifest
    saved_manifest,\* content of photo_index.json
    fate,          \* observer: what the loop did with each image of this run
    prev,          \* observer: result of the first call, once a second one runs
    image_paths,   \* cluster_faces: the manifest destinations passed in
    detected,      \* what face_recognition finds in each image of image_paths
    face_encodings,\* cluster_faces: face_encodings
    image_to_faces,\* cluster_faces: image_to_faces (insertion-ordered dict)
    labels,        \* cluster_faces: clustering.labels_
    face_to_label, \* cluster_faces: face_to_label (insertion-ordered dict)
    cluster_examples, \* label_faces_gui: cluster_examples
    rendered,      \* label_faces_gui: labels whose thumbnail could be extracted
    face_pc        \* "encoding" | "clustered" | "labelled"

dateOnly == <<path, date_result, date_pc>>

orgOnly == <<images, out_files, org_pc, run, idx, seen_hashes, stats,
             photo_manifest, saved_manifest, fate, prev>>

faceOnly == <<image_paths, detected, face_encodings, image_to_faces, labels,
              face_to_label, cluster_examples, rendered, face_pc>>

vars == <<os_sep, dateOnly, orgOnly, faceOnly>>

None == <<>>

-----------------------------------------------------------------------------
(* Characters                                                              *)

Digits == {"0", "1", "2", "3", "4", "5", "6", "7", "8", "9"}

LowerLetters == <<"a","b","c","d","e","f","g","h","i","j","k","l","m",
                  "n","o","p","q","r","s","t","u","v","w","x","y","z">>

UpperLetters == <<"A","B","C","D","E","F","G","H","I","J","K","L","M",
                  "N","O","P","Q","R","S","T","U","V","W","X","Y","Z">>

Letters == {LowerLetters[i] : i \in 1..26} \cup {UpperLetters[i] : i \in 1..26}

IsLetter(c) == c \in Letters

UpperToLower == [c \in {UpperLetters[i] : i \in 1..26} |->
                    LowerLetters[CHOOSE i \in 1..26 : UpperLetters[i] = c]]

LowerChar(c) == IF c \in DOMAIN UpperToLower THEN UpperToLower[c] ELSE c

\* str.lower()
lower(s) == [i \in 1..Len(s) |-> LowerChar(s[i])]

DigitVal(c) ==
    CASE c = "0" -> 0 [] c = "1" -> 1 [] c = "2" -> 2 [] c = "3" -> 3
      [] c = "4" -> 4 [] c = "5" -> 5 [] c = "6" -> 6 [] c = "7" -> 7
      [] c = "8" -> 8 [] c = "9" -> 9

IsDigitAt(s, i) == i \in 1..Len(s) /\ s[i] \in Digits

isdigit(s) == Len(s) > 0 /\ \A i \in 1..Len(s) : s[i] \in Digits

RECURSIVE IntVal(_)
IntVal(s) == IF s = <<>> THEN 0
             ELSE 10 * IntVal(SubSeq(s, 1, Len(s) - 1)) + DigitVal(s[Len(s)])

\* s contains sub as a contiguous substring (Python "sub in s")
Contains(s, sub) ==
    \E i \in 1..(Len(s) - Len(sub) + 1) : SubSeq(s, i, i + Len(sub) - 1) = sub

Min(S) == CHOOSE i \in S : \A j \in S : i <= j

\* str.split(sep) for a one-character separator
RECURSIVE Split(_, _)
Split(s, sep) ==
    LET hits == {i \in 1..Len(s) : s[i] = sep}
    IN IF hits = {} THEN <<s>>
       ELSE <<SubSeq(s, 1, Min(hits) - 1)>> \o Split(SubSeq(s, Min(hits) + 1, Len(s)), sep)

\* os.path.join of the segments
RECURSIVE Join(_, _)
Join(segs, sep) ==
    IF Len(segs) = 0 THEN <<>>
    ELSE IF Len(segs) = 1 THEN segs[1]
    ELSE segs[1] \o <<sep>> \o Join(Tail(segs), sep)

-----------------------------------------------------------------------------
(* The four patterns of infer_date_from_path, as re.search with            *)
(* re.IGNORECASE.  A match is <<group(0), group(1), ...>>; no match is     *)
(* <<>>.                                                                   *)

NoMatch == <<>>

\* r"(\d{4})[/\\](\d{1,2})"
SearchYearMonth(part) ==
    LET starts == {i \in 1..Len(part) :
                     /\ \A k \in 0..3 : IsDigitAt(part, i + k)
                     /\ i + 4 <= Len(part) /\ part[i + 4] \in {"/", "\\"}
                     /\ IsDigitAt(part, i + 5)}
    IN IF starts = {} THEN NoMatch
       ELSE LET i == Min(starts)
                e == IF IsDigitAt(part, i + 6) THEN i + 6 ELSE i + 5
            IN <<SubSeq(part, i, e), SubSeq(part, i, i + 3), SubSeq(part, i + 5, e)>>

MonthNames == << <<"j","a","n">>, <<"f","e","b">>, <<"m","a","r">>, <<"a","p","r">>,
                 <<"m","a","y">>, <<"j","u","n">>, <<"j","u","l">>, <<"a","u","g">>,
                 <<"s","e","p">>, <<"o","c","t">>, <<"n","o","v">>, <<"d","e","c">> >>

\* r"(Jan|Feb|Mar|Apr|May|Jun|Jul|Aug|Sep|Oct|Nov|Dec)[a-z]*"
SearchMonthName(part) ==
    LET folded == lower(part)
        starts == {i \in 1..(Len(part) - 2) :
                     \E m \in 1..12 : SubSeq(folded, i, i + 2) = MonthNames[m]}
    IN IF starts = {} THEN NoMatch
       ELSE LET i == Min(starts)
                ends == {e \in (i + 2)..Len(part) :
                           \A k \in (i + 3)..e : IsLetter(part[k])}
                e == CHOOSE x \in ends : \A y \in ends : y <= x
            IN <<SubSeq(part, i, e), SubSeq(part, i, i + 2)>>

\* r"(\d{2})/(\d{2})/(\d{4})"
SearchDayMonthYear(part) ==
    LET starts == {i \in 1..Len(part) :
                     /\ IsDigitAt(part, i) /\ IsDigitAt(part, i + 1)
                     /\ i + 2 <= Len(part) /\ part[i + 2] = "/"
                     /\ IsDigitAt(part, i + 3) /\ IsDigitAt(part, i + 4)
                     /\ i + 5 <= Len(part) /\ part[i + 5] = "/"
                     /\ \A k \in 6..9 : IsDigitAt(part, i + k)}
    IN IF starts = {} THEN NoMatch
       ELSE LET i == Min(starts)
            IN <<SubSeq(part, i, i + 9), SubSeq(part, i, i + 1),
                 SubSeq(part, i + 3, i + 4), SubSeq(part, i + 6, i + 9)>>

YearSeparators == {"-", "_", " "}

\* 19[8-9]\d|20[0-2]\d at position j
YearTokenAt(part, j) ==
    /\ j >= 1 /\ j + 3 <= Len(part)
    /\ \/ part[j] = "1" /\ part[j + 1] = "9" /\ part[j + 2] \in {"8", "9"}
       \/ part[j] = "2" /\ part[j + 1] = "0" /\ part[j + 2] \in {"0", "1", "2"}
    /\ part[j + 3] \in Digits

\* r"(?<!\d)(?:-|_|\s)?(19[8-9]\d|20[0-2]\d)(?:-|_|\s)?(?!\d)"
\* a match attempt starting at s with lead/trail optional separators taken or not
BareYearMatchAt(part, s, lead, trail) ==
    /\ ~IsDigitAt(part, s - 1)
    /\ lead = 1 => (s <= Len(part) /\ part[s] \in YearSeparators)
    /\ YearTokenAt(part, s + lead)
    /\ trail = 1 => (s + lead + 4 <= Len(part) /\ part[s + lead + 4] \in YearSeparators)
    /\ ~IsDigitAt(part, s + lead + 4 + trail)

SearchBareYear(part) ==
    LET starts == {s \in 1..Len(part) :
                     \E lead \in {0, 1}, trail \in {0, 1} : BareYearMatchAt(part, s, lead, trail)}
    IN IF starts = {} THEN NoMatch
       ELSE LET s == Min(starts)
                lead == IF \E t \in {0, 1} : BareYearMatchAt(part, s, 1, t) THEN 1 ELSE 0
                trail == IF BareYearMatchAt(part, s, lead, 1) THEN 1 ELSE 0
            IN <<SubSeq(part, s, s + lead + 3 + trail), SubSeq(part, s + lead, s + lead + 3)>>

-----------------------------------------------------------------------------
(* month_str_to_int and datetime(); 0 / None stand for a raised exception   *)

month_str_to_int(s) ==
    LET folded == lower(s)
        hits == {m \in 1..12 : Contains(folded, MonthNames[m])}
    IN IF hits = {} THEN 0 ELSE Min(hits)

IsLeap(y) == (y % 4 = 0 /\ y % 100 # 0) \/ y % 400 = 0

DaysInMonth(y, m) ==
    IF m \in {4, 6, 9, 11} THEN 30
    ELSE IF m = 2 THEN (IF IsLeap(y) THEN 29 ELSE 28)
    ELSE 31

\* datetime(y, m, d): the date, or None when the constructor raises ValueError
datetime(y, m, d) ==
    IF y \in 1..9999 /\ m \in 1..12 /\ d >= 1 /\ d <= DaysInMonth(y, m)
    THEN <<y, m, d>> ELSE None

MinYear == 1988
MaxYear == 2025

\* The body of the try block for one match: the date returned, or None when
\* the block raises (except: continue) or falls through without returning.
TryMatch(match) ==
    LET ngroups == Len(match) - 1
        group(k) == match[k + 1]
    IN IF ngroups = 2 /\ isdigit(group(1))
       THEN (IF month_str_to_int(group(2)) = 0 THEN None
             ELSE datetime(IntVal(group(1)), month_str_to_int(group(2)), 1))
       ELSE IF ngroups = 3
       THEN datetime(IntVal(group(3)), IntVal(group(2)), IntVal(group(1)))
       ELSE IF ngroups = 1
       THEN (IF ~isdigit(group(1)) THEN None
             ELSE IF MinYear <= IntVal(group(1)) /\ IntVal(group(1)) <= MaxYear
                  THEN datetime(IntVal(group(1)), 1, 1)
                  ELSE None)
       ELSE IF group(1) # <<>>
       THEN datetime(2000, month_str_to_int(group(0)), 1)
       ELSE None

SearchPattern(k, part) ==
    CASE k = 1 -> SearchYearMonth(part)
      [] k = 2 -> SearchMonthName(part)
      [] k = 3 -> SearchDayMonthYear(part)
      [] k = 4 -> SearchBareYear(part)

\* inner loop: for pattern in patterns (from pattern k on)
RECURSIVE InferFromPart(_, _)
InferFromPart(part, k) ==
    IF k > 4 THEN None
    ELSE LET match == SearchPattern(k, part)
             r == IF match = NoMatch THEN None ELSE TryMatch(match)
         IN IF r # None THEN r ELSE InferFromPart(part, k + 1)

\* outer loop: for part in parts (from part p on)
RECURSIVE InferFromParts(_, _)
InferFromParts(parts, p) ==
    IF p > Len(parts) THEN None
    ELSE LET r == InferFromPart(parts[p], 1)
         IN IF r # None THEN r ELSE InferFromParts(parts, p + 1)

infer_date_from_path(p, sep) == InferFromParts(Split(p, sep), 1)

-----------------------------------------------------------------------------
(* organise_photos                                                         *)

MaxImages == 2
NumHashes == 2

\* generate_image_hash: 0 is None (unreadable image), 1..NumHashes a hash
Hashes == 0..NumHashes

\* get_image_date: the EXIF date of the file, or None
ExifDates == {None, <<2020, 6, 1>>}

InputFolder == <<"i", "n">>
OutputFolder == <<"o", "u", "t">>

\* The files os.walk can find under the input folder, in walk order.
Catalogue == <<
    << <<"I","M","G","_","2","0","2","0","_","P","a","r","i","s","_",
         "W","e","d","d","i","n","g">>, <<"a",".","j","p","g">> >>,
    << <<"S","u","m","m","e","r","_","A","u","g","_","T","r","i","p">>,
       <<"i","m","g",".","j","p","g">> >>,
    << <<"1","9","9","9">>, <<"a",".","j","p","g">> >>,
    << <<"x","_","1","9","9","9">>, <<"a",".","j","p","g">> >>
>>

\* os.path.join(root, file) for catalogue file k
ImagePath(k) == Join(<<InputFolder>> \o Catalogue[k], os_sep)

EventKeywords == {
    <<"w","e","d","d","i","n","g">>, <<"h","o","l","i","d","a","y">>,
    <<"b","i","r","t","h","d","a","y">>, <<"p","a","r","t","y">>,
    <<"g","r","a","d","u","a","t","i","o","n">>,
    <<"h","o","n","e","y","m","o","o","n">>, <<"t","r","i","p">> }

\* the event label loop: the first path part containing a keyword, else None
EventLabel(parts) ==
    LET folded == [k \in 1..Len(parts) |-> lower(parts[k])]
        hits == {k \in 1..Len(parts) :
                   \E kw \in EventKeywords : Contains(folded[k], kw)}
    IN IF hits = {} THEN None ELSE parts[Min(hits)]

common_locations == <<
    <<"p","a","r","i","s">>, <<"l","o","n","d","o","n">>, <<"t","o","k","y","o">>,
    <<"n","e","w"," ","y","o","r","k">>, <<"c","o","r","k">>,
    <<"d","u","b","l","i","n">>, <<"r","o","m","e">>, <<"b","e","r","l","i","n">> >>

RECURSIVE LocationsFrom(_, _)
LocationsFrom(path_lower, k) ==
    IF k > Len(common_locations) THEN <<>>
    ELSE (IF Contains(path_lower, common_locations[k])
          THEN <<common_locations[k]>> ELSE <<>>) \o LocationsFrom(path_lower, k + 1)

extract_location_keywords(p) == LocationsFrom(lower(p), 1)

DigitChars == <<"0", "1", "2", "3", "4", "5", "6", "7", "8", "9">>

\* str(n) for n >= 0
RECURSIVE Str(_)
Str(n) == IF n < 10 THEN <<DigitChars[n + 1]>>
          ELSE Str(n \div 10) \o <<DigitChars[(n % 10) + 1]>>

\* f"{n:02d}"
Format02d(n) == IF n < 10 THEN <<"0">> \o Str(n) ELSE Str(n)

\* new_dir, with the event label appended when there is one
NewDir(date_taken, event_label) ==
    LET base == Join(<<OutputFolder, Str(date_taken[1]), Format02d(date_taken[2])>>, os_sep)
    IN IF event_label # None THEN Join(<<base, event_label>>, os_sep) ELSE base

basename(p) == LET parts == Split(p, os_sep) IN parts[Len(parts)]

Destination(p, date_taken) ==
    Join(<<NewDir(date_taken, EventLabel(Split(p, os_sep))), basename(p)>>, os_sep)

\* date_taken = get_image_date(path) or infer_date_from_path(path)
DateTaken(img) ==
    IF img.exif # None THEN img.exif
    ELSE infer_date_from_path(ImagePath(img.file), os_sep)

\* a duplicate test that forgets the "img_hash and" guard
IsDuplicate_NoNullGuard(img_hash, seen) == img_hash \in seen

\* if img_hash and img_hash in seen_hashes
IsDuplicate(img_hash, seen) == img_hash # 0 /\ img_hash \in seen

\* an existence test that never finds the destination
DestinationExists_Never(destination, files) == FALSE

\* os.path.exists(destination)
DestinationExists(destination, files) == destination \in DOMAIN files

WriteFile(files, destination, content) ==
    [d \in DOMAIN files \cup {destination} |->
        IF d = destination THEN content ELSE files[d]]

NewStats == [total_files |-> 0, deduplicated |-> 0, copied |-> 0, unknown_date |-> 0]

\* a duplicate that is skipped without being counted
CountDuplicate_NotCounted(st) == [st EXCEPT !.total_files = @ + 1]

CountDuplicate(st) == [st EXCEPT !.total_files = @ + 1, !.deduplicated = @ + 1]

CountUnknownDate(st) == [st EXCEPT !.total_files = @ + 1, !.unknown_date = @ + 1]

CountCopied(st) == [st EXCEPT !.total_files = @ + 1, !.copied = @ + 1]

CountOnly(st) == [st EXCEPT !.total_files = @ + 1]

\* a write-back failure that skips the image like a copy failure does
ManifestAfterCopy_DropsOnWriteFailure(manifest, entry, write_failed) ==
    IF write_failed THEN manifest ELSE Append(manifest, entry)

\* the manifest after the write-back attempt that follows a successful copy:
\* the EXIF exception is caught, the entry is appended either way
ManifestAfterCopy(manifest, entry, write_failed) == Append(manifest, entry)

\* the manifest after shutil.copy2 raised
ManifestAfterCopyFailure(manifest, entry) == manifest

\* Outcomes of shutil.copy2: success, an error before the destination was
\* created, an error after it was created (copyfile done, copystat failed).
CopyOutcomes == {"ok", "error", "error_file_left"}

\* Files that may already be under the output folder before the first call.
PreExisting(sep) == {
    Join(<<OutputFolder, <<"1","9","9","9">>, <<"0","1">>, <<"a",".","j","p","g">> >>, sep) }

OldContent == <<0, "old">>

\* str(datetime), the date part: json.dump(..., default=str)
DateStr(d) == Str(d[1]) \o <<"-">> \o Format02d(d[2]) \o <<"-">> \o Format02d(d[3])

\* what save_json writes to photo_index.json
SaveJson(manifest) ==
    [i \in 1..Len(manifest) |-> [manifest[i] EXCEPT !.date_taken = DateStr(@)]]

OrgIdle ==
    /\ images = <<>>
    /\ out_files = <<>>
    /\ org_pc = "idle"
    /\ run = 0
    /\ idx = 0
    /\ seen_hashes = {}
    /\ stats = NewStats
    /\ photo_manifest = <<>>
    /\ saved_manifest = <<>>
    /\ fate = <<>>
    /\ prev = <<>>

DateIdle ==
    /\ path = <<>>
    /\ date_result = None
    /\ date_pc = "idle"

FaceIdle ==
    /\ image_paths = <<>>
    /\ detected = <<>>
    /\ face_encodings = <<>>
    /\ image_to_faces = <<>>
    /\ labels = <<>>
    /\ face_to_label = <<>>
    /\ cluster_examples = <<>>
    /\ rendered = {}
    /\ face_pc = "idle"

\* run_processing has checked that both folders exist; the output folder may
\* hold files of an earlier run.  An error of os.makedirs or save_json is not
\* caught by organise_photos and ends the call without a result; the
\* properties below are about calls that return, so it is left out.
OrgInit ==
    /\ os_sep \in {"/", "\\"}
    /\ DateIdle
    /\ FaceIdle
    /\ images = <<>>
    /\ \E pre \in SUBSET PreExisting(os_sep) : out_files = [d \in pre |-> OldContent]
    /\ org_pc = "setup"
    /\ run = 0
    /\ idx = 0
    /\ seen_hashes = {}
    /\ stats = NewStats
    /\ photo_manifest = <<>>
    /\ saved_manifest = <<>>
    /\ fate = <<>>
    /\ prev = <<>>

\* os.walk finds one more image file (files are listed in catalogue order).
\* Hashes are only ever compared for equality, so a hash value not seen before
\* is always given the next unused number.
AddImage(k, h, e) ==
    /\ org_pc = "setup"
    /\ Len(images) < MaxImages
    /\ \A i \in 1..Len(images) : images[i].file < k
    /\ h > 1 => \E i \in 1..Len(images) : images[i].hash = h - 1
    /\ images' = Append(images, [file |-> k, hash |-> h, exif |-> e])
    /\ UNCHANGED <<os_sep, dateOnly, faceOnly, out_files, org_pc, run, idx, seen_hashes, stats,
                   photo_manifest, saved_manifest, fate, prev>>

\* organise_photos is called: lines 111-121
StartOrganise ==
    /\ org_pc = "setup"
    /\ org_pc' = "loop"
    /\ run' = 1
    /\ idx' = 0
    /\ seen_hashes' = {}
    /\ stats' = NewStats
    /\ photo_manifest' = <<>>
    /\ fate' = <<>>
    /\ UNCHANGED <<os_sep, dateOnly, faceOnly, images, out_files, saved_manifest, prev>>

\* one iteration of "for path in tqdm(images)"
ProcessImage ==
    /\ org_pc = "loop"
    /\ idx < Len(images)
    /\ idx' = idx + 1
    /\ LET img == images[idx + 1]
           p == ImagePath(img.file)
       IN IF IsDuplicate(img.hash, seen_hashes)
          THEN /\ stats' = CountDuplicate(stats)
               /\ fate' = Append(fate, "deduplicated")
               /\ UNCHANGED <<seen_hashes, photo_manifest, out_files>>
          ELSE /\ seen_hashes' = seen_hashes \cup {img.hash}
               /\ LET date_taken == DateTaken(img)
                  IN IF date_taken = None
                     THEN /\ stats' = CountUnknownDate(stats)
                          /\ fate' = Append(fate, "unknown_date")
                          /\ UNCHANGED <<photo_manifest, out_files>>
                     ELSE LET destination == Destination(p, date_taken)
                              locations == extract_location_keywords(p)
                              entry == [source |-> img.file, destination |-> destination,
                                        date_taken |-> date_taken, locations |-> locations]
                          IN IF DestinationExists(destination, out_files)
                             THEN /\ stats' = CountOnly(stats)
                                  /\ fate' = Append(fate, "exists")
                                  /\ UNCHANGED <<photo_manifest, out_files>>
                             ELSE \E outcome \in CopyOutcomes, exif_written \in BOOLEAN :
                                    IF outcome = "ok"
                                    THEN /\ stats' = CountCopied(stats)
                                         /\ fate' = Append(fate, "copied")
                                         /\ out_files' = WriteFile(out_files, destination,
                                               <<img.file, IF locations # <<>> /\ exif_written
                                                           THEN "tagged" ELSE "copied">>)
                                         /\ photo_manifest' =
                                               ManifestAfterCopy(photo_manifest, entry,
                                                  locations # <<>> /\ ~exif_written)
                                    ELSE /\ stats' = CountOnly(stats)
                                         /\ fate' = Append(fate, "copy_failed")
                                         /\ out_files' = IF outcome = "error_file_left"
                                                         THEN WriteFile(out_files, destination,
                                                                        <<img.file, "partial">>)
                                                         ELSE out_files
                                         /\ photo_manifest' =
                                               ManifestAfterCopyFailure(photo_manifest, entry)
    /\ UNCHANGED <<os_sep, dateOnly, faceOnly, images, org_pc, run, saved_manifest, prev>>

\* save_json(photo_manifest, output_folder); return stats, photo_manifest
FinishOrganise ==
    /\ org_pc = "loop"
    /\ idx = Len(images)
    /\ saved_manifest' = SaveJson(photo_manifest)
    /\ org_pc' = "done"
    /\ UNCHANGED <<os_sep, dateOnly, faceOnly, images, out_files, run, idx, seen_hashes, stats,
                   photo_manifest, fate, prev>>

\* organise_photos is called a second time with the same folders
RunAgain ==
    /\ org_pc = "done"
    /\ run = 1
    /\ prev' = [stats |-> stats, manifest |-> photo_manifest,
                out_files |-> out_files, fate |-> fate]
    /\ org_pc' = "loop"
    /\ run' = 2
    /\ idx' = 0
    /\ seen_hashes' = {}
    /\ stats' = NewStats
    /\ photo_manifest' = <<>>
    /\ fate' = <<>>
    /\ UNCHANGED <<os_sep, dateOnly, faceOnly, images, out_files, saved_manifest>>

OrgNext ==
    \/ \E k \in 1..Len(Catalogue), h \in Hashes, e \in ExifDates : AddImage(k, h, e)
    \/ StartOrganise
    \/ ProcessImage
    \/ FinishOrganise
    \/ RunAgain

SpecOrg == OrgInit /\ [][OrgNext]_vars

-----------------------------------------------------------------------------
(* Properties of organise_photos                                           *)

CountFate(f, kind) == Cardinality({i \in 1..Len(f) : f[i] = kind})

CopyFailures == CountFate(fate, "copy_failed")

\* C1 as stated: when organise_photos finishes, total_files equals
\* deduplicated + copied + unknown_date + copy_failures, so that every
\* enumerated image is in one of these four groups.
C1_FourGroupsReconcile ==
    org_pc = "done" =>
        stats.total_files =
            stats.deduplicated + stats.copied + stats.unknown_date + CopyFailures

\* C1 amended: when organise_photos finishes, total_files is the number of
\* enumerated images and equals deduplicated + copied + unknown_date +
\* copy_failures + already_present, where already_present counts the images
\* skipped because their destination already existed; each counter equals the
\* number of images the loop treated that way.
C1_FiveGroupsReconcile ==
    org_pc = "done" =>
        /\ stats.total_files = Len(images)
        /\ stats.deduplicated = CountFate(fate, "deduplicated")
        /\ stats.copied = CountFate(fate, "copied")
        /\ stats.unknown_date = CountFate(fate, "unknown_date")
        /\ stats.total_files =
              stats.deduplicated + stats.copied + stats.unknown_date
              + CopyFailures + CountFate(fate, "exists")

\* a finished first run with a destination-exists skip and a copy failure
C1_Witness ==
    /\ org_pc = "done"
    /\ run = 1
    /\ CountFate(fate, "exists") >= 1
    /\ CopyFailures >= 1

SameHashEarlier(i) == \E j \in 1..(i - 1) : images[j].hash = images[i].hash

ImageOfFile(k) == CHOOSE i \in 1..Len(images) : images[i].file = k

DedupDecisionsExact ==
    /\ \A i \in 1..Len(fate) :
          fate[i] = "deduplicated" <=> (images[i].hash # 0 /\ SameHashEarlier(i))
    /\ \A m \in 1..Len(photo_manifest) :
          LET i == ImageOfFile(photo_manifest[m].source)
          IN images[i].hash # 0 => ~SameHashEarlier(i)
    /\ \A i \in 1..Len(fate) : images[i].hash = 0 => fate[i] # "deduplicated"

\* C2 as stated: an image is skipped as a duplicate iff its fingerprint is
\* non-null and equals that of an earlier image; only the first image of a
\* non-null fingerprint can reach the manifest; the manifest never has more
\* entries than there are distinct fingerprints; a null fingerprint is never
\* skipped as a duplicate.
C2_ManifestWithinDistinctFingerprints ==
    /\ DedupDecisionsExact
    /\ Len(photo_manifest) <= Cardinality({images[i].hash : i \in 1..Len(images)})

\* C2 amended: as stated, except that the manifest never has more entries than
\* the number of distinct non-null fingerprints plus the number of images whose
\* fingerprint is null (each null-fingerprint image is processed on its own).
C2_DedupFirstWins ==
    /\ DedupDecisionsExact
    /\ Len(photo_manifest) <=
          Cardinality({images[i].hash : i \in 1..Len(images)} \ {0})
          + Cardinality({i \in 1..Len(images) : images[i].hash = 0})

\* a finished run in which the second image repeated the first one's
\* fingerprint and only the first reached the manifest
C2_Witness ==
    /\ org_pc = "done"
    /\ Len(fate) = 2
    /\ fate[2] = "deduplicated"
    /\ Len(photo_manifest) = 1
    /\ photo_manifest[1].source = images[1].file

SecondRunDone == run = 2 /\ org_pc = "done"

\* C3 as stated: a second run over the same folders copies nothing and adds
\* or changes no file under the output tree.
C3_SecondRunCopiesNothing ==
    SecondRunDone => (stats.copied = 0 /\ out_files = prev.out_files)

\* C3 amended: in a second run over the same folders every image placed by the
\* first run is skipped by the destination-exists check and no file already
\* under the output tree changes; the second run copies only images whose copy
\* failed in the first run, so when no copy failed in the first run its copied
\* counter is 0 and the output tree is unchanged.
C3_SecondRunSkipsPlaced ==
    SecondRunDone =>
        /\ \A i \in 1..Len(images) : prev.fate[i] = "copied" => fate[i] = "exists"
        /\ \A d \in DOMAIN prev.out_files :
              d \in DOMAIN out_files /\ out_files[d] = prev.out_files[d]
        /\ \A i \in 1..Len(images) : fate[i] = "copied" => prev.fate[i] = "copy_failed"
        /\ CountFate(prev.fate, "copy_failed") = 0 =>
              (stats.copied = 0 /\ out_files = prev.out_files)

\* a finished second run after a first run that copied an image
C3_Witness ==
    /\ SecondRunDone
    /\ prev.stats.copied >= 1
    /\ CountFate(fate, "exists") >= 1
    /\ stats.copied = 0

RECURSIVE CopiedSources(_)
CopiedSources(n) ==
    IF n = 0 THEN <<>>
    ELSE CopiedSources(n - 1) \o
         (IF fate[n] = "copied" THEN <<images[n].file>> ELSE <<>>)

\* C8: the manifest has exactly one entry per image copied in this run, in
\* order (its length is the copied counter), none for an image that was
\* deduplicated, undated, already present or failed to copy; every entry has a
\* date; a failed metadata write-back does not remove the entry; the saved
\* manifest has the same entries.
C8_ManifestIsCopiedImages ==
    /\ Len(photo_manifest) = stats.copied
    /\ [m \in 1..Len(photo_manifest) |-> photo_manifest[m].source]
          = CopiedSources(Len(fate))
    /\ \A m \in 1..Len(photo_manifest) :
          /\ photo_manifest[m].date_taken # None
          /\ photo_manifest[m].destination \in DOMAIN out_files
          /\ out_files[photo_manifest[m].destination][1] = photo_manifest[m].source
    /\ org_pc = "done" =>
          /\ Len(saved_manifest) = Len(photo_manifest)
          /\ \A m \in 1..Len(photo_manifest) :
                /\ saved_manifest[m].source = photo_manifest[m].source
                /\ saved_manifest[m].destination = photo_manifest[m].destination
                /\ saved_manifest[m].date_taken # <<>>

\* a finished run with one image copied whose metadata write-back failed and
\* one image whose copy failed
C8_Witness ==
    /\ org_pc = "done"
    /\ run = 1
    /\ Len(photo_manifest) = 1
    /\ photo_manifest[1].locations # <<>>
    /\ out_files[photo_manifest[1].destination] = <<photo_manifest[1].source, "copied">>
    /\ CopyFailures = 1

-----------------------------------------------------------------------------
(* cluster_faces, label_faces_gui, extract_face_thumbnail                  *)
(* Embeddings are points with integer coordinates in units of 0.1, compared *)
(* by squared Euclidean distance.                                          *)

MaxPaths == 2
MaxTotalFaces == 3

\* tolerance=0.5 and the 0.6 threshold of extract_face_thumbnail, in units of 0.1
Tolerance == 5
MatchThreshold == 6

Embeddings == {<<0, 0>>, <<3, 0>>, <<0, 4>>, <<6, 0>>, <<12, 0>>}

DistSq(a, b) == (a[1] - b[1]) * (a[1] - b[1]) + (a[2] - b[2]) * (a[2] - b[2])

SeqsUpTo(S, n) == UNION {[1..k -> S] : k \in 0..n}

\* DBSCAN's eps-neighbourhood: distance <= eps
Neighbours(points, eps, i) ==
    {j \in 1..Len(points) : DistSq(points[i], points[j]) <= eps * eps}

\* a cluster that takes the neighbours of its first point only
ExpandCluster_DirectOnly(points, eps, S) ==
    S \cup UNION {Neighbours(points, eps, i) : i \in S}

\* with min_samples=1 every point is a core point: the cluster of a seed is
\* everything reachable through neighbourhoods
RECURSIVE ExpandCluster(_, _, _)
ExpandCluster(points, eps, S) ==
    LET T == S \cup UNION {Neighbours(points, eps, i) : i \in S}
    IN IF T = S THEN S ELSE ExpandCluster(points, eps, T)

\* the scan over the points in index order; -1 is "not yet labelled"
RECURSIVE DbscanFrom(_, _, _, _, _)
DbscanFrom(points, eps, i, lab, label_num) ==
    IF i > Len(points) THEN lab
    ELSE IF lab[i] # -1 THEN DbscanFrom(points, eps, i + 1, lab, label_num)
    ELSE LET cluster == ExpandCluster(points, eps, {i})
             lab2 == [j \in 1..Len(points) |->
                        IF j \in cluster /\ lab[j] = -1 THEN label_num ELSE lab[j]]
         IN DbscanFrom(points, eps, i + 1, lab2, label_num + 1)

\* DBSCAN(metric='euclidean', eps=eps, min_samples=1).fit(points).labels_
DBSCAN(points, eps) ==
    DbscanFrom(points, eps, 1, [j \in 1..Len(points) |-> -1], 0)

\* image_to_faces[path] = encs on an insertion-ordered dict
DictSet(dict, key, value) ==
    IF \E k \in 1..Len(dict) : dict[k].path = key
    THEN [k \in 1..Len(dict) |->
            IF dict[k].path = key THEN [path |-> key, encs |-> value] ELSE dict[k]]
    ELSE Append(dict, [path |-> key, encs |-> value])

RECURSIVE ReassociateFrom(_, _, _, _)
ReassociateFrom(labs, itf, k, face_idx) ==
    IF k > Len(itf) THEN <<>>
    ELSE << [path |-> itf[k].path,
             labels |-> [i \in 1..Len(itf[k].encs) |-> labs[face_idx + i]]] >>
         \o ReassociateFrom(labs, itf, k + 1, face_idx + Len(itf[k].encs))

\* a re-association whose index restarts at 0 for every image
Reassociate_IndexRestarts(labs, itf) ==
    [k \in 1..Len(itf) |->
        [path |-> itf[k].path, labels |-> [i \in 1..Len(itf[k].encs) |-> labs[i]]]]

\* the face_to_label loop: idx runs over the concatenated batch
Reassociate(labs, itf) == ReassociateFrom(labs, itf, 1, 0)

LabelSet(ftl) == UNION {{ftl[k].labels[i] : i \in 1..Len(ftl[k].labels)} : k \in 1..Len(ftl)}

\* list({l for labels in face_to_label.values() for l in labels}): CPython
\* iterates a set of small non-negative ints in ascending order
RECURSIVE SortedList(_)
SortedList(S) == IF S = {} THEN <<>>
                 ELSE <<Min(S)>> \o SortedList(S \ {Min(S)})

\* label_faces_gui, the cluster_examples loop
ClusterExamples(encs, cluster_labels, itf) ==
    LET paths == [k \in 1..Len(itf) |-> itf[k].path]
        used == {p \in 1..Len(cluster_labels) : p <= Len(paths)}
    IN [l \in {cluster_labels[p] : p \in used} |->
          LET p == CHOOSE q \in used : cluster_labels[q] = l
          IN <<encs[p], paths[p]>>]

\* extract_face_thumbnail: is there a crop (a face of the image within the
\* match threshold of the given encoding)?  Detection is repeated on the same
\* image and finds what it found during clustering.
extract_face_thumbnail(image_path, face_encoding) ==
    LET found == detected[image_path]
    IN /\ found.ok
       /\ \E i \in 1..Len(found.encs) :
             DistSq(found.encs[i], face_encoding) < MatchThreshold * MatchThreshold

\* run_processing calls cluster_faces with the destinations of the manifest,
\* which are pairwise distinct; they are numbered 1..n here.
FaceInit ==
    /\ os_sep = "/"
    /\ DateIdle
    /\ OrgIdle
    /\ \E n \in 0..MaxPaths : image_paths = [k \in 1..n |-> k]
    /\ detected = <<>>
    /\ face_encodings = <<>>
    /\ image_to_faces = <<>>
    /\ labels = <<>>
    /\ face_to_label = <<>>
    /\ cluster_examples = <<>>
    /\ rendered = {}
    /\ face_pc = "encoding"

\* one iteration of the encoding loop: the image fails to load, or yields encs
EncodeImage(ok, encs) ==
    /\ face_pc = "encoding"
    /\ Len(detected) < Len(image_paths)
    /\ ~ok => encs = <<>>
    /\ Len(face_encodings) + Len(encs) <= MaxTotalFaces
    /\ detected' = Append(detected, [ok |-> ok, encs |-> encs])
    /\ IF ok /\ encs # <<>>
       THEN /\ image_to_faces' = DictSet(image_to_faces, image_paths[Len(detected) + 1], encs)
            /\ face_encodings' = face_encodings \o encs
       ELSE UNCHANGED <<image_to_faces, face_encodings>>
    /\ UNCHANGED <<os_sep, dateOnly, orgOnly, image_paths, labels, face_to_label,
                   cluster_examples, rendered, face_pc>>

\* the rest of cluster_faces: lines 197-213
ClusterFaces ==
    /\ face_pc = "encoding"
    /\ Len(detected) = Len(image_paths)
    /\ IF face_encodings = <<>>
       THEN /\ labels' = <<>>
            /\ face_to_label' = <<>>
       ELSE /\ labels' = DBSCAN(face_encodings, Tolerance)
            /\ face_to_label' = Reassociate(DBSCAN(face_encodings, Tolerance), image_to_faces)
    /\ face_pc' = "clustered"
    /\ UNCHANGED <<os_sep, dateOnly, orgOnly, image_paths, detected, face_encodings,
                   image_to_faces, cluster_examples, rendered>>

\* label_faces_gui as called by run_processing: the representative of every
\* cluster and whether its thumbnail can be shown for naming
LabelFaces ==
    /\ face_pc = "clustered"
    /\ LET cluster_labels == SortedList(LabelSet(face_to_label))
           examples == ClusterExamples(face_encodings, cluster_labels, image_to_faces)
       IN /\ cluster_examples' = examples
          /\ rendered' = {l \in DOMAIN examples :
                            extract_face_thumbnail(examples[l][2], examples[l][1])}
    /\ face_pc' = "labelled"
    /\ UNCHANGED <<os_sep, dateOnly, orgOnly, image_paths, detected, face_encodings,
                   image_to_faces, labels, face_to_label>>

FaceNext ==
    \/ \E ok \in BOOLEAN, encs \in SeqsUpTo(Embeddings, MaxTotalFaces) : EncodeImage(ok, encs)
    \/ ClusterFaces
    \/ LabelFaces

SpecFaces == FaceInit /\ [][FaceNext]_vars

-----------------------------------------------------------------------------
(* Properties of the face pipeline                                         *)

FacesClustered == face_pc \in {"clustered", "labelled"}

FacePositions == 1..Len(face_encodings)

\* a chain of at most k steps from face p to face q, each step within tolerance
RECURSIVE Linked(_, _, _)
Linked(p, q, k) ==
    \/ p = q
    \/ /\ k > 0
       /\ \E r \in FacePositions :
             /\ DistSq(face_encodings[p], face_encodings[r]) <= Tolerance * Tolerance
             /\ Linked(r, q, k - 1)

\* the images of image_paths taken in the order given by perm
RECURSIVE EncodingsInOrder(_, _)
EncodingsInOrder(perm, k) ==
    IF k > Len(perm) THEN <<>>
    ELSE detected[perm[k]].encs \o EncodingsInOrder(perm, k + 1)

ImageOrders ==
    {perm \in [1..Len(detected) -> 1..Len(detected)] :
        \A a, b \in 1..Len(detected) : a # b => perm[a] # perm[b]}

PositionOf(encs, v) == CHOOSE p \in 1..Len(encs) : encs[p] = v

\* C7: two embeddings closer than tolerance share a label; two embeddings
\* farther apart than tolerance with no chain of embeddings linking them
\* (consecutive pairs within tolerance) have different labels; which
\* embeddings share a label is the same for every order of the input images.
C7_ClusteringGroupsByChains ==
    FacesClustered =>
        /\ \A p, q \in FacePositions :
              DistSq(face_encodings[p], face_encodings[q]) < Tolerance * Tolerance
                 => labels[p] = labels[q]
        /\ \A p, q \in FacePositions :
              (/\ DistSq(face_encodings[p], face_encodings[q]) > Tolerance * Tolerance
               /\ ~Linked(p, q, Len(face_encodings)))
                 => labels[p] # labels[q]
        /\ \A perm \in ImageOrders :
              LET encs == EncodingsInOrder(perm, 1)
                  labs == DBSCAN(encs, Tolerance)
              IN \A p, q \in FacePositions :
                    (labels[p] = labels[q]) <=>
                       (labs[PositionOf(encs, face_encodings[p])]
                          = labs[PositionOf(encs, face_encodings[q])])

\* three faces in two images: two farther apart than tolerance but joined
\* through the third, so that all three share one cluster
C7_Witness ==
    /\ FacesClustered
    /\ Len(image_to_faces) = 2
    /\ Len(face_encodings) = 3
    /\ \E p, q \in FacePositions :
          /\ DistSq(face_encodings[p], face_encodings[q]) > Tolerance * Tolerance
          /\ labels[p] = labels[q]
    /\ \E p, q \in FacePositions : p # q /\
          DistSq(face_encodings[p], face_encodings[q]) < Tolerance * Tolerance

\* C9 as stated: for every cluster label, label_faces_gui's representative is
\* an embedding that was given that label together with the image in which
\* that face was detected.
C9_RepresentativeBelongsToCluster ==
    face_pc = "labelled" =>
        \A l \in LabelSet(face_to_label) :
            /\ l \in DOMAIN cluster_examples
            /\ \E k \in 1..Len(face_to_label) :
                  /\ face_to_label[k].path = cluster_examples[l][2]
                  /\ \E i \in 1..Len(face_to_label[k].labels) :
                        /\ image_to_faces[k].encs[i] = cluster_examples[l][1]
                        /\ face_to_label[k].labels[i] = l

ImagesWithFaces ==
    SelectSeq([k \in 1..Len(detected) |-> k],
              LAMBDA k : detected[k].ok /\ detected[k].encs # <<>>)

-----------------------------------------------------------------------------
(* Paths handed to infer_date_from_path.  A path is built from directory   *)
(* name fragments and separators and ends in os.sep + file name, as        *)
(* get_all_images joins them; the documented examples are available whole. *)

MaxPathLen == 9

PathTokens == << <<"/">>, <<"\\">>, <<"_">>,
                 <<"1","9","8","6">>, <<"1","9","9","9">>,
                 <<"0","5">>, <<"A","u","g">> >>

FileName == <<"a", ".", "j", "p", "g">>

ExamplePaths == <<
    \* .../2019/05/misc_2019_extra/photo.jpg
    << <<".",".",".">>, <<"2","0","1","9">>, <<"0","5">>,
       <<"m","i","s","c","_","2","0","1","9","_","e","x","t","r","a">>,
       <<"p","h","o","t","o",".","j","p","g">> >>,
    \* Summer_Aug_Trip/img.jpg
    << <<"S","u","m","m","e","r","_","A","u","g","_","T","r","i","p">>,
       <<"i","m","g",".","j","p","g">> >>,
    \* /archive/1975/photo.jpg
    << <<>>, <<"a","r","c","h","i","v","e">>, <<"1","9","7","5">>,
       <<"p","h","o","t","o",".","j","p","g">> >>,
    \* /archive/1999/photo.jpg
    << <<>>, <<"a","r","c","h","i","v","e">>, <<"1","9","9","9">>,
       <<"p","h","o","t","o",".","j","p","g">> >>,
    \* IMG_2020_Paris_Wedding/a.jpg
    << <<"I","M","G","_","2","0","2","0","_","P","a","r","i","s","_",
         "W","e","d","d","i","n","g">>, FileName >>,
    \* 12/05/1999 inside one directory name of a platform whose os.sep is "\\"
    << <<"1","2","/","0","5","/","1","9","9","9">>, FileName >>
>>

DateInit ==
    /\ os_sep \in {"/", "\\"}
    /\ path = <<>>
    /\ date_result = None
    /\ date_pc = "build"
    /\ OrgIdle
    /\ FaceIdle

\* extend the directory part of the path by one fragment
AppendToken(t) ==
    /\ date_pc = "build"
    /\ Len(path) + Len(PathTokens[t]) <= MaxPathLen
    /\ path' = path \o PathTokens[t]
    /\ UNCHANGED <<os_sep, date_result, date_pc, orgOnly, faceOnly>>

\* os.path.join(root, file) in get_all_images
JoinFileName ==
    /\ date_pc = "build"
    /\ path' = path \o <<os_sep>> \o FileName
    /\ date_pc' = "ready"
    /\ UNCHANGED <<os_sep, date_result, orgOnly, faceOnly>>

UseExample(e) ==
    /\ date_pc = "build"
    /\ path = <<>>
    /\ path' = Join(ExamplePaths[e], os_sep)
    /\ date_pc' = "ready"
    /\ UNCHANGED <<os_sep, date_result, orgOnly, faceOnly>>

InferDate ==
    /\ date_pc = "ready"
    /\ date_result' = infer_date_from_path(path, os_sep)
    /\ date_pc' = "done"
    /\ UNCHANGED <<os_sep, path, orgOnly, faceOnly>>

DateNext ==
    \/ \E t \in 1..Len(PathTokens) : AppendToken(t)
    \/ JoinFileName
    \/ \E e \in 1..Len(ExamplePaths) : UseExample(e)
    \/ InferDate

SpecDate == DateInit /\ [][DateNext]_vars

-----------------------------------------------------------------------------
(* Properties of infer_date_from_path                                      *)

PathParts == Split(path, os_sep)

\* a directory named by exactly four digits followed by a directory named by
\* one or two digits that are a month number
YearMonthDirs ==
    {k \in 1..(Len(PathParts) - 1) :
        /\ Len(PathParts[k]) = 4 /\ isdigit(PathParts[k])
        /\ Len(PathParts[k + 1]) \in {1, 2} /\ isdigit(PathParts[k + 1])
        /\ IntVal(PathParts[k + 1]) \in 1..12}

PartsWithBareYear == {k \in 1..Len(PathParts) : SearchBareYear(PathParts[k]) # NoMatch}

\* C4 as stated: when the path has a YYYY directory followed by an M directory
\* and a bare 4-digit year elsewhere, the result is the first day of month M of
\* year YYYY.
C4_YearMonthWinsOverBareYear ==
    (/\ date_pc = "done"
     /\ YearMonthDirs # {}
     /\ Cardinality(PartsWithBareYear) >= 2)
    => LET k == Min(YearMonthDirs)
       IN date_result = <<IntVal(PathParts[k]), IntVal(PathParts[k + 1]), 1>>

DateLike(part) ==
    \/ SearchYearMonth(part) # NoMatch
    \/ SearchMonthName(part) # NoMatch
    \/ SearchDayMonthYear(part) # NoMatch
    \/ SearchBareYear(part) # NoMatch

DateLikeParts == {k \in 1..Len(PathParts) : DateLike(PathParts[k])}

\* C5 as stated: when the path has no YYYY/M pattern and its first date-like
\* content is a segment containing a three-letter month name, the result is
\* year 2000, that month, day 1.
C5_MonthNameGivesYear2000 ==
    (/\ date_pc = "done"
     /\ SearchYearMonth(path) = NoMatch
     /\ DateLikeParts # {}
     /\ SearchMonthName(PathParts[Min(DateLikeParts)]) # NoMatch)
    => date_result =
          <<2000, month_str_to_int(SearchMonthName(PathParts[Min(DateLikeParts)])[1]), 1>>

\* the 4-digit numbers of a segment that are not adjacent to other digits
BareNumbers(part) ==
    {IntVal(SubSeq(part, j, j + 3)) : j \in
        {i \in 1..(Len(part) - 3) :
            /\ \A k \in 0..3 : IsDigitAt(part, i + k)
            /\ ~IsDigitAt(part, i - 1)
            /\ ~IsDigitAt(part, i + 4)}}

YearsInRange ==
    {y \in UNION {BareNumbers(PathParts[k]) : k \in 1..Len(PathParts)} :
        MinYear <= y /\ y <= MaxYear}

\* C6 as stated: when the path has no higher-priority pattern, the result is
\* January 1 of a year in [1988, 2025] that some segment contains (not
\* adjacent to other digits) whenever there is one, and None when there is none.
C6_BareYearWithinBounds ==
    (/\ date_pc = "done"
     /\ SearchYearMonth(path) = NoMatch
     /\ SearchMonthName(path) = NoMatch
     /\ SearchDayMonthYear(path) = NoMatch)
    => IF YearsInRange = {} THEN date_result = None
       ELSE \E y \in YearsInRange : date_result = <<y, 1, 1>>

====
